---- MODULE Spec2Model ----
(***************************************************************************)
(* Search-It: the entity enrichment pipeline of src/app.py and the helpers *)
(* of src/data_processing.py (classify_query, preprocess_search_results,   *)
(* search_entity_info, extract_information_with_groq, perform_ner).        *)
(*                                                                         *)
(* Python strings are modelled as sequences of one-character strings, so   *)
(* that lower(), strip(), join() and the substring test `in` are computed  *)
(* character by character.                                                 *)
(***************************************************************************)
EXTENDS Integers, Sequences, FiniteSets, TLC

VARIABLES
    \* ---- classify_query, called on its own ----
    query,          \* the argument of classify_query
    label,          \* its return value, "" before the call
    \* ---- preprocess_search_results, called on its own ----
    raw,            \* the argument of preprocess_search_results
    cleaned,        \* its outcome: [raised, value], value meaningful when ~raised
    ppDone,         \* TRUE once preprocess_search_results has been called on raw
    recleaned,      \* the outcome of preprocess_search_results on cleaned's list
    ppAgain,        \* TRUE once that second call has been made
    \* ---- search_entity_info on a response, followed by preprocessing ----
    serp_response,  \* what search.get_dict() returned
    serp_hits,      \* what search_entity_info returned for it
    serp_prepared,  \* the outcome of preprocess_search_results(serp_hits)
    serp_pc,        \* "request", "returned" or "preprocessed"
    \* ---- perform_ner, called on its own ----
    doc_ents,       \* doc.ents: the spans the tagger found, in order
    ner_map,        \* the dict perform_ner returned
    nerDone,        \* TRUE once perform_ner has been called
    \* ---- the pipeline loop of app.py ----
    entities,       \* data[primary_column]: the input entities, in order
    query_template, \* the run's query template
    idx,            \* 1-based position of the loop in entities
    pc,             \* position of the script inside the loop body
    ner_results,    \* perform_ner(entity) of the current entity
    query_type,     \* classify_query(query_template) of the current entity
    web_result,     \* what safe_api_call(search_entity_info, entity) returned
    preprocessed_results, \* preprocess_search_results(web_result)
    extracted_info, \* what safe_api_call(extract_information_with_groq, ...) returned
    results,        \* the list of rows accumulated by the loop
    results_df,     \* st.session_state.results_df: [set, rows]
    call,           \* the running call of search_entity_info / extract_information_with_groq
    safe,           \* the running safe_api_call around it
    llm_requests,   \* provider requests made to the LLM for the current entity
    rate_sleeps,    \* the time.sleep(RATE_LIMIT_DELAY) calls made after the current entity, in seconds
    \* ---- safe_upload_to_google_sheet, called on its own ----
    dataframe,      \* the table handed to safe_upload_to_google_sheet
    sheet_url,      \* the URL handed to it
    token_json,     \* the state of the file token.json
    sheet_values,   \* the values of Sheet1!A1 in the remote spreadsheet
    upload          \* the running call: position, sheet id, messages, return value

vars == <<query, label, raw, cleaned, ppDone, recleaned, ppAgain,
          serp_response, serp_hits, serp_prepared, serp_pc, doc_ents, ner_map, nerDone, entities, query_template, idx, pc,
          ner_results, query_type, web_result, preprocessed_results,
          extracted_info, results, results_df, call, safe, llm_requests,
          rate_sleeps, dataframe, sheet_url, token_json, sheet_values, upload>>

classifyVars == <<query, label>>
preprocessVars == <<raw, cleaned, ppDone, recleaned, ppAgain>>
searchVars == <<serp_response, serp_hits, serp_prepared, serp_pc>>
nerVars == <<doc_ents, ner_map, nerDone>>
pipelineVars == <<entities, query_template, idx, pc, ner_results, query_type,
                  web_result, preprocessed_results, extracted_info, results,
                  results_df, call, safe, llm_requests, rate_sleeps>>
uploadVars == <<dataframe, sheet_url, token_json, sheet_values, upload>>

----------------------------------------------------------------------------
\* Bounds of the model.

\* a query handed to classify_query is a concatenation of at most MaxFrags fragments
MaxFrags == 2
\* a list handed to preprocess_search_results has at most MaxHits entries
MaxHits == 2
\* a run processes at most MaxEntities entities
MaxEntities == 2
\* a response of the search provider has at most MaxOrganic organic results
MaxOrganic == 11
\* the tagger finds at most MaxSpans spans in a text
MaxSpans == 3

----------------------------------------------------------------------------
\* Python strings, character by character.

UpperCase == <<"A", "B", "C", "D", "E", "F", "G", "H", "I", "J", "K", "L", "M",
               "N", "O", "P", "Q", "R", "S", "T", "U", "V", "W", "X", "Y", "Z">>
LowerCase == <<"a", "b", "c", "d", "e", "f", "g", "h", "i", "j", "k", "l", "m",
               "n", "o", "p", "q", "r", "s", "t", "u", "v", "w", "x", "y", "z">>

\* str.lower() of the upper-case letters
UpperToLower ==
    [c \in {UpperCase[i] : i \in 1..Len(UpperCase)} |->
        LowerCase[CHOOSE i \in 1..Len(UpperCase) : UpperCase[i] = c]]

\* str.lower() of one character
LowerChar(c) == IF c \in DOMAIN UpperToLower THEN UpperToLower[c] ELSE c

\* str.lower()
Lower(s) == [i \in 1..Len(s) |-> LowerChar(s[i])]

\* the characters str.strip() removes
Whitespace == {" ", "\t", "\n"}

\* str.strip(): drop leading and trailing whitespace
Strip(s) ==
    LET keep == {i \in 1..Len(s) : s[i] \notin Whitespace} IN
    IF keep = {} THEN <<>>
    ELSE LET lo == CHOOSE i \in keep : \A j \in keep : i <= j
             hi == CHOOSE i \in keep : \A j \in keep : j <= i
         IN SubSeq(s, lo, hi)

\* k in s, for strings
Contains(s, k) ==
    \E i \in 0..(Len(s) - Len(k)) : SubSeq(s, i + 1, i + Len(k)) = k

\* the concatenation of a sequence of strings
RECURSIVE Concat(_)
Concat(ss) == IF ss = <<>> THEN <<>> ELSE Head(ss) \o Concat(Tail(ss))

\* a join that forgot the separator
join_without_separator(sep, ss) == Concat(ss)

\* sep.join(ss)
RECURSIVE Join(_, _)
Join(sep, ss) ==
    IF ss = <<>> THEN <<>>
    ELSE IF Len(ss) = 1 THEN ss[1]
    ELSE ss[1] \o sep \o Join(sep, Tail(ss))

----------------------------------------------------------------------------
\* classify_query (data_processing.py): the keywords it tests.

kw_net_worth == <<"n", "e", "t", " ", "w", "o", "r", "t", "h">>
kw_age == <<"a", "g", "e">>
kw_born == <<"b", "o", "r", "n">>
kw_career == <<"c", "a", "r", "e", "e", "r">>
kw_biography == <<"b", "i", "o", "g", "r", "a", "p", "h", "y">>
kw_parents == <<"p", "a", "r", "e", "n", "t", "s">>
kw_family == <<"f", "a", "m", "i", "l", "y">>
kw_job == <<"j", "o", "b">>
kw_education == <<"e", "d", "u", "c", "a", "t", "i", "o", "n">>
kw_school == <<"s", "c", "h", "o", "o", "l">>
kw_married == <<"m", "a", "r", "r", "i", "e", "d">>
kw_spouse == <<"s", "p", "o", "u", "s", "e">>
kw_award == <<"a", "w", "a", "r", "d">>
kw_achievement == <<"a", "c", "h", "i", "e", "v", "e", "m", "e", "n", "t">>
kw_history == <<"h", "i", "s", "t", "o", "r", "y">>
kw_background == <<"b", "a", "c", "k", "g", "r", "o", "u", "n", "d">>
kw_product == <<"p", "r", "o", "d", "u", "c", "t">>
kw_service == <<"s", "e", "r", "v", "i", "c", "e">>
kw_news == <<"n", "e", "w", "s">>
kw_latest == <<"l", "a", "t", "e", "s", "t">>
kw_social_media == <<"s", "o", "c", "i", "a", "l", " ", "m", "e", "d", "i", "a">>
kw_twitter == <<"t", "w", "i", "t", "t", "e", "r">>
kw_instagram == <<"i", "n", "s", "t", "a", "g", "r", "a", "m">>
kw_charity == <<"c", "h", "a", "r", "i", "t", "y">>
kw_philanthropy == <<"p", "h", "i", "l", "a", "n", "t", "h", "r", "o", "p", "y">>
kw_property == <<"p", "r", "o", "p", "e", "r", "t", "y">>
kw_real_estate == <<"r", "e", "a", "l", " ", "e", "s", "t", "a", "t", "e">>
kw_health == <<"h", "e", "a", "l", "t", "h">>
kw_condition == <<"c", "o", "n", "d", "i", "t", "i", "o", "n">>
kw_event == <<"e", "v", "e", "n", "t">>
kw_conference == <<"c", "o", "n", "f", "e", "r", "e", "n", "c", "e">>
kw_fruit == <<"f", "r", "u", "i", "t">>
kw_vegetable == <<"v", "e", "g", "e", "t", "a", "b", "l", "e">>

\* the conditions of the if / elif chain, in the order of the code
is_net_worth(query_lower) == Contains(query_lower, kw_net_worth)
is_age(query_lower) ==
    Contains(query_lower, kw_age) \/ Contains(query_lower, kw_born)
\* a Biography rule that forgot "career"
is_biography_only(query_lower) == Contains(query_lower, kw_biography)
is_biography(query_lower) ==
    Contains(query_lower, kw_career) \/ Contains(query_lower, kw_biography)
is_family(query_lower) ==
    Contains(query_lower, kw_parents) \/ Contains(query_lower, kw_family)
is_career(query_lower) ==
    Contains(query_lower, kw_job) \/ Contains(query_lower, kw_career)
is_education(query_lower) ==
    Contains(query_lower, kw_education) \/ Contains(query_lower, kw_school)
is_personal_life(query_lower) ==
    Contains(query_lower, kw_married) \/ Contains(query_lower, kw_spouse)
is_awards(query_lower) ==
    Contains(query_lower, kw_award) \/ Contains(query_lower, kw_achievement)
is_company_info(query_lower) ==
    Contains(query_lower, kw_history) \/ Contains(query_lower, kw_background)
is_product_info(query_lower) ==
    Contains(query_lower, kw_product) \/ Contains(query_lower, kw_service)
is_news(query_lower) ==
    Contains(query_lower, kw_news) \/ Contains(query_lower, kw_latest)
is_social_media(query_lower) ==
    \/ Contains(query_lower, kw_social_media)
    \/ Contains(query_lower, kw_twitter)
    \/ Contains(query_lower, kw_instagram)
is_philanthropy(query_lower) ==
    Contains(query_lower, kw_charity) \/ Contains(query_lower, kw_philanthropy)
is_real_estate(query_lower) ==
    Contains(query_lower, kw_property) \/ Contains(query_lower, kw_real_estate)
is_health(query_lower) ==
    Contains(query_lower, kw_health) \/ Contains(query_lower, kw_condition)
is_events(query_lower) ==
    Contains(query_lower, kw_event) \/ Contains(query_lower, kw_conference)
is_fruit(query_lower) ==
    Contains(query_lower, kw_fruit) \/ Contains(query_lower, kw_vegetable)

\* a classify_query that forgot query.lower()
query_not_lowered(q) == q
\* query_lower = query.lower()
query_lowered(q) == Lower(q)

classify_query(q) ==
    LET query_lower == query_lowered(q) IN
    IF is_net_worth(query_lower) THEN "Net Worth"
    ELSE IF is_age(query_lower) THEN "Age"
    ELSE IF is_biography(query_lower) THEN "Biography"
    ELSE IF is_family(query_lower) THEN "Family Information"
    ELSE IF is_career(query_lower) THEN "Career"
    ELSE IF is_education(query_lower) THEN "Education"
    ELSE IF is_personal_life(query_lower) THEN "Personal Life"
    ELSE IF is_awards(query_lower) THEN "Awards & Achievements"
    ELSE IF is_company_info(query_lower) THEN "Company Info"
    ELSE IF is_product_info(query_lower) THEN "Product Info"
    ELSE IF is_news(query_lower) THEN "News"
    ELSE IF is_social_media(query_lower) THEN "Social Media"
    ELSE IF is_philanthropy(query_lower) THEN "Philanthropy"
    ELSE IF is_real_estate(query_lower) THEN "Real Estate"
    ELSE IF is_health(query_lower) THEN "Health"
    ELSE IF is_events(query_lower) THEN "Events"
    ELSE IF is_fruit(query_lower) THEN "Fruit"
    ELSE "Miscellaneous"

\* the pieces the queries of the model are assembled from: every keyword of
\* classify_query, some in upper or mixed case, and text that is no keyword
Fragments ==
    { kw_net_worth, kw_age, kw_born, kw_career, kw_biography, kw_parents,
      kw_family, kw_job, kw_education, kw_school, kw_married, kw_spouse,
      kw_award, kw_achievement, kw_history, kw_background, kw_product,
      kw_service, kw_news, kw_latest, kw_social_media, kw_twitter,
      kw_instagram, kw_charity, kw_philanthropy, kw_property, kw_real_estate,
      kw_health, kw_condition, kw_event, kw_conference, kw_fruit, kw_vegetable,
      <<"C", "A", "R", "E", "E", "R">>, <<"J", "o", "b">>,
      <<"N", "e", "t", " ", "W", "o", "r", "t", "h">>, <<"A", "g", "e">>,
      <<"c", "a", "r">>, <<"e", "e", "r">>, <<"p">>, <<" ">>,
      <<"{", "e", "n", "t", "i", "t", "y", "}">> }

Queries ==
    { Concat(fs) : fs \in UNION { [1..n -> Fragments] : n \in 0..MaxFrags } }

InitClassify ==
    /\ query \in Queries
    /\ label = ""

\* label = classify_query(query)
Classify ==
    /\ label = ""
    /\ label' = classify_query(query)
    /\ UNCHANGED query

----------------------------------------------------------------------------
\* Python values, as far as the search payloads need them.

\* the value of one key of a dict: absent, None or a string
Missing == [t |-> "missing", s |-> <<>>]
NoneField == [t |-> "None", s |-> <<>>]
Str(s) == [t |-> "str", s |-> s]

\* a dict with (at most) the keys title, url and snippet
NoDict == [title |-> Missing, url |-> Missing, snippet |-> Missing]

\* a value: None, an int, a str, a dict or a list of values
PyNone == [t |-> "None", n |-> 0, s |-> <<>>, d |-> NoDict, items |-> <<>>]
PyInt(n) == [t |-> "int", n |-> n, s |-> <<>>, d |-> NoDict, items |-> <<>>]
PyStr(s) == [t |-> "str", n |-> 0, s |-> s, d |-> NoDict, items |-> <<>>]
PyDict(d) == [t |-> "dict", n |-> 0, s |-> <<>>, d |-> d, items |-> <<>>]
PyList(items) == [t |-> "list", n |-> 0, s |-> <<>>, d |-> NoDict, items |-> items]

\* bool(v)
Truthy(v) ==
    CASE v.t = "None" -> FALSE
      [] v.t = "int" -> v.n # 0
      [] v.t = "str" -> v.s # <<>>
      [] v.t = "dict" -> \E k \in DOMAIN v.d : v.d[k].t # "missing"
      [] v.t = "list" -> v.items # <<>>

\* d.get(key, default)
DictGet(d, key, default) == IF d[key].t = "missing" THEN default ELSE d[key]

\* the outcome of a call: a returned value, or a raised exception
Returned(v) == [raised |-> FALSE, value |-> v]
Raised == [raised |-> TRUE, value |-> PyNone]

s_Foo == <<"F", "o", "o">>
s_Foo_padded == <<" ", "F", "o", "o", " ">>

----------------------------------------------------------------------------
\* preprocess_search_results (data_processing.py)

\* result.get(key, "") has .strip() only when it is a str
CanStrip(result, key) == DictGet(result.d, key, Str(<<>>)).t = "str"

\* result.get(key, "").strip()
StripField(result, key) == Str(Strip(DictGet(result.d, key, Str(<<>>)).s))

\* the body of `for result in results`, with the exception of .strip() on a
\* value that is no str leaving the loop and the function
\* a cleaned_result that stores the snippet as title and the title as snippet
cleaned_result_swapped(result) ==
    PyDict([title |-> StripField(result, "snippet"),
            url |-> StripField(result, "url"),
            snippet |-> StripField(result, "title")])
\* cleaned_result = {"title": ..., "url": ..., "snippet": ...}
cleaned_result(result) ==
    PyDict([title |-> StripField(result, "title"),
            url |-> StripField(result, "url"),
            snippet |-> StripField(result, "snippet")])

RECURSIVE clean_loop(_, _)
clean_loop(todo, cleaned_results) ==
    IF todo = <<>> THEN Returned(PyList(cleaned_results))
    ELSE LET result == Head(todo) IN
         IF result.t = "dict"
         THEN IF \A key \in {"title", "url", "snippet"} : CanStrip(result, key)
              THEN clean_loop(Tail(todo),
                              Append(cleaned_results, cleaned_result(result)))
              ELSE Raised
         ELSE clean_loop(Tail(todo), cleaned_results)

\* a preprocess_search_results without the isinstance(results, list) test:
\* iterating an int raises, iterating a str or a dict yields no dict
preprocess_without_type_check(raw_results) ==
    IF ~Truthy(raw_results) THEN Returned(PyList(<<>>))
    ELSE IF raw_results.t = "int" THEN Raised
    ELSE clean_loop(raw_results.items, <<>>)

preprocess_search_results(raw_results) ==
    IF ~Truthy(raw_results) \/ raw_results.t # "list"
    THEN Returned(PyList(<<>>))
    ELSE clean_loop(raw_results.items, <<>>)

\* the values a key of a raw hit takes in the model
FieldValues == {Missing, NoneField, Str(s_Foo_padded), Str(s_Foo)}

\* the entries of a raw payload: dicts, and values that are no dict
RawEntries ==
    { PyDict(d) : d \in [title : FieldValues, url : FieldValues,
                         snippet : FieldValues] }
    \cup {PyNone, PyInt(7), PyStr(s_Foo)}

\* the payloads handed to preprocess_search_results
RawInputs ==
    {PyNone, PyInt(0), PyInt(7), PyStr(<<>>), PyStr(s_Foo), PyDict(NoDict),
     PyDict([title |-> Str(s_Foo_padded), url |-> Missing, snippet |-> NoneField])}
    \cup { PyList(items) :
             items \in UNION { [1..n -> RawEntries] : n \in 0..MaxHits } }

InitPreprocess ==
    /\ raw \in RawInputs
    /\ cleaned = Returned(PyNone)
    /\ ppDone = FALSE
    /\ recleaned = Returned(PyNone)
    /\ ppAgain = FALSE

\* cleaned = preprocess_search_results(raw)
Preprocess ==
    /\ ~ppDone
    /\ cleaned' = preprocess_search_results(raw)
    /\ ppDone' = TRUE
    /\ UNCHANGED <<raw, recleaned, ppAgain>>

\* recleaned = preprocess_search_results(cleaned), for a call that returned
PreprocessAgain ==
    /\ ppDone
    /\ ~cleaned.raised
    /\ ~ppAgain
    /\ recleaned' = preprocess_search_results(cleaned.value)
    /\ ppAgain' = TRUE
    /\ UNCHANGED <<raw, cleaned, ppDone>>

----------------------------------------------------------------------------
\* String literals of the code and of the scenarios.

s_NA ==
    <<"N", "/", "A">>
s_no_search_results ==
    <<"N", "o", " ", "s", "e", "a", "r", "c", "h", " ", "r", "e", "s", "u",
      "l", "t", "s", " ", "f", "o", "u", "n", "d">>
s_failed_to_extract ==
    <<"F", "a", "i", "l", "e", "d", " ", "t", "o", " ", "e", "x", "t", "r",
      "a", "c", "t">>
s_comma_space ==
    <<",", " ">>
s_A ==
    <<"A">>
s_B ==
    <<"B">>
s_A_padded ==
    <<"A", " ">>
s_42_padded ==
    <<" ", "4", "2", " ">>
s_url_a ==
    <<"u", "/", "a">>
s_url_b ==
    <<"u", "/", "b">>
template_net_worth ==
    <<"E", "x", "t", "r", "a", "c", "t", " ", "t", "h", "e", " ", "n", "e",
      "t", " ", "w", "o", "r", "t", "h", " ", "o", "f", " ", "{", "e", "n",
      "t", "i", "t", "y", "}">>
template_default ==
    <<"E", "x", "t", "r", "a", "c", "t", " ", "t", "h", "e", " ", "e", "m",
      "a", "i", "l", " ", "a", "n", "d", " ", "a", "d", "d", "r", "e", "s",
      "s", " ", "f", "o", "r", " ", "{", "e", "n", "t", "i", "t", "y", "}">>

----------------------------------------------------------------------------
\* Retry constants.

\* data_processing.py and app.py: MAX_RETRIES = 3
MAX_RETRIES == 3
\* data_processing.py: RETRY_DELAY = 2
RETRY_DELAY == 2
\* app.py: RATE_LIMIT_DELAY = 2
RATE_LIMIT_DELAY == 2

----------------------------------------------------------------------------
\* The providers, as the pipeline sees them.

\* one entry of the provider's "organic_results": a dict with (at most) the
\* keys title, link and snippet
Organic(title, link, snippet) == [title |-> title, link |-> link, snippet |-> snippet]

\* the responses of search.get_dict() in the model: no "organic_results" key,
\* an empty one, two results of which the second has no snippet key, and a
\* result whose snippet is null
SearchResponses ==
    { [has_organic |-> FALSE, organic_results |-> <<>>],
      [has_organic |-> TRUE, organic_results |-> <<>>],
      [has_organic |-> TRUE, organic_results |->
          <<Organic(Str(s_A_padded), Str(s_url_a), Str(s_Foo_padded)),
            Organic(Str(s_B), Str(s_url_b), Missing)>>],
      [has_organic |-> TRUE, organic_results |->
          <<Organic(Str(s_A), Str(s_url_a), NoneField)>>] }

\* a result.get(key, "") in place of result.get(key, "N/A")
organic_get_or_empty(result, key) == DictGet(result, key, Str(<<>>))
\* result.get(key, "N/A")
organic_get(result, key) == DictGet(result, key, Str(s_NA))

\* the list comprehension of search_entity_info: one hit per organic result,
\* a missing key replaced by "N/A"
RECURSIVE hits_of(_)
hits_of(organic_results) ==
    IF organic_results = <<>> THEN <<>>
    ELSE LET result == Head(organic_results) IN
         <<PyDict([title |-> organic_get(result, "title"),
                   url |-> organic_get(result, "link"),
                   snippet |-> organic_get(result, "snippet")])>>
         \o hits_of(Tail(organic_results))

\* what search_entity_info returns for a response of the provider
\* ("organic_results" in results and results["organic_results"])
search_return(response) ==
    IF response.has_organic /\ response.organic_results # <<>>
    THEN PyList(hits_of(response.organic_results))
    ELSE PyList(<<>>)

\* "num": 10, the number of results search_entity_info asks the provider for
RESULTS_REQUESTED == 10

\* the values a key of an organic result takes in the model
OrganicFieldValues == {Missing, NoneField, Str(s_A_padded)}

OrganicResults ==
    [title : OrganicFieldValues, link : OrganicFieldValues,
     snippet : OrganicFieldValues]

\* the responses handed to search_entity_info on its own: no "organic_results"
\* key, up to MaxHits results of any shape, and up to MaxOrganic complete
\* results
ProviderResponses ==
    { [has_organic |-> FALSE, organic_results |-> <<>>] }
    \cup { [has_organic |-> TRUE, organic_results |-> rs] :
             rs \in UNION { [1..n -> OrganicResults] : n \in 0..MaxHits } }
    \cup { [has_organic |-> TRUE, organic_results |->
                [i \in 1..n |-> Organic(Str(s_A), Str(s_url_a), Str(s_Foo))]] :
             n \in 1..MaxOrganic }

InitSearch ==
    /\ serp_response \in ProviderResponses
    /\ serp_hits = PyNone
    /\ serp_prepared = Returned(PyNone)
    /\ serp_pc = "request"

\* search.get_dict() returns serp_response and search_entity_info returns
SearchReturns ==
    /\ serp_pc = "request"
    /\ serp_hits' = search_return(serp_response)
    /\ serp_pc' = "returned"
    /\ UNCHANGED <<serp_response, serp_prepared>>

\* if web_result: preprocessed_results = preprocess_search_results(web_result)
PreprocessReturned ==
    /\ serp_pc = "returned"
    /\ Truthy(serp_hits)
    /\ serp_prepared' = preprocess_search_results(serp_hits)
    /\ serp_pc' = "preprocessed"
    /\ UNCHANGED <<serp_response, serp_hits>>

\* chat_completion.choices[0].message.content of a completed LLM request:
\* text, empty text, or None
LLMContents == {PyStr(s_42_padded), PyStr(<<" ">>), PyNone}

\* doc.ents of nlp(text): the tagged spans, in order
NlpEnts(text) ==
    { <<>>,
      <<[label_ |-> "ORG", text |-> "Corp"], [label_ |-> "PERSON", text |-> text],
        [label_ |-> "ORG", text |-> text]>> }

\* perform_ner: entities[ent.label_] = ent.text for each span, in order
RECURSIVE ner_loop(_, _)
ner_loop(ents, acc) ==
    IF ents = <<>> THEN acc
    ELSE LET ent == Head(ents) IN
         ner_loop(Tail(ents),
                  [l \in DOMAIN acc \cup {ent.label_} |->
                      IF l = ent.label_ THEN ent.text ELSE acc[l]])

EmptyMap == [l \in {} |-> ""]

\* a perform_ner that keeps the first span of a label
RECURSIVE first_wins_loop(_, _)
first_wins_loop(ents, acc) ==
    IF ents = <<>> THEN acc
    ELSE LET ent == Head(ents) IN
         first_wins_loop(Tail(ents),
                  [l \in DOMAIN acc \cup {ent.label_} |->
                      IF l \in DOMAIN acc THEN acc[l] ELSE ent.text])
perform_ner_first_wins(ents) == first_wins_loop(ents, EmptyMap)

perform_ner(ents) == ner_loop(ents, EmptyMap)

\* the spans of the tagger in the model
Spans == [label_ : {"PERSON", "ORG"}, text : {"Acme", "Jane"}]

InitNer ==
    /\ doc_ents \in UNION { [1..n -> Spans] : n \in 0..MaxSpans }
    /\ ner_map = EmptyMap
    /\ nerDone = FALSE

\* ner_map = perform_ner(text), the tagger finding doc_ents in text
PerformNer ==
    /\ ~nerDone
    /\ ner_map' = perform_ner(doc_ents)
    /\ nerDone' = TRUE
    /\ UNCHANGED doc_ents

----------------------------------------------------------------------------
\* The pipeline loop of app.py ("Run Search and Extract Information").

EntityNames == {"Acme Corp", "Jane Doe"}
Templates == {template_net_worth, template_default}

\* a call of search_entity_info or extract_information_with_groq that has
\* just been entered
NewCall(fn) ==
    [fn |-> fn, attempt |-> 0, requests |-> 0, sleeps |-> <<>>,
     last |-> "none", status |-> "running"]
NoCall ==
    [fn |-> "none", attempt |-> 0, requests |-> 0, sleeps |-> <<>>,
     last |-> "none", status |-> "idle"]

\* a safe_api_call that has just been entered
NewSafe(fn) ==
    [fn |-> fn, attempt |-> 0, requests |-> 0, sleeps |-> <<>>,
     status |-> "running"]
NoSafe ==
    [fn |-> "none", attempt |-> 0, requests |-> 0, sleeps |-> <<>>,
     status |-> "idle"]

Row(entity, info, title, url, snippet, ner, qtype) ==
    [Entity |-> entity, ExtractedInformation |-> info, SearchTitle |-> title,
     SearchURL |-> url, SearchSnippet |-> snippet, NERResults |-> ner,
     QueryType |-> qtype]

\* [result.get(key, "") for result in preprocessed_results]
RECURSIVE FieldsOf(_, _)
FieldsOf(hits, key) ==
    IF hits = <<>> THEN <<>>
    ELSE <<DictGet(Head(hits).d, key, Str(<<>>)).s>> \o FieldsOf(Tail(hits), key)

\* a test `if web_result is not None:` in place of `if web_result:`
web_result_is_not_none(w) == w.t # "None"
\* if web_result:
has_results(w) == Truthy(w)

\* a no-results row that lost the NER results
no_results_row_without_ner(entity, ner, qtype) ==
    Row(entity, s_no_search_results, <<>>, <<>>, <<>>, EmptyMap, qtype)
\* the row of the else branch
no_results_row(entity, ner, qtype) ==
    Row(entity, s_no_search_results, <<>>, <<>>, <<>>, ner, qtype)

\* the row of the if branch
extraction_row(entity, info, hits, ner, qtype) ==
    Row(entity,
        IF Truthy(info) THEN info.s ELSE s_failed_to_extract,
        Join(s_comma_space, FieldsOf(hits.items, "title")),
        Join(s_comma_space, FieldsOf(hits.items, "url")),
        Join(s_comma_space, FieldsOf(hits.items, "snippet")),
        ner, qtype)

\* a results.insert(0, row) in place of results.append(row)
results_insert_first(rows, row) == <<row>> \o rows
\* results.append(row)
results_append(rows, row) == Append(rows, row)

InitPipeline ==
    /\ entities \in UNION { [1..n -> EntityNames] : n \in 0..MaxEntities }
    /\ query_template \in Templates
    /\ idx = 1
    /\ pc = "loop"
    /\ ner_results = EmptyMap
    /\ query_type = ""
    /\ web_result = PyNone
    /\ preprocessed_results = PyNone
    /\ extracted_info = PyNone
    /\ results = <<>>
    /\ results_df = [set |-> FALSE, rows |-> <<>>]
    /\ call = NoCall
    /\ safe = NoSafe
    /\ llm_requests = 0
    /\ rate_sleeps = <<>>

\* the except branch of search_entity_info after a failed request: sleep
\* RETRY_DELAY * 2 ** attempt and go on with the next attempt, or raise
\* after the last one
search_except_swallowing(c) ==
    IF c.attempt < MAX_RETRIES - 1
    THEN [c EXCEPT !.sleeps = Append(@, RETRY_DELAY * (2 ^ c.attempt)),
                   !.attempt = @ + 1]
    ELSE [c EXCEPT !.status = "fell_through"]
search_except(c) ==
    IF c.attempt < MAX_RETRIES - 1
    THEN [c EXCEPT !.sleeps = Append(@, RETRY_DELAY * (2 ^ c.attempt)),
                   !.attempt = @ + 1]
    ELSE [c EXCEPT !.status = "raised"]

\* the except branch of extract_information_with_groq
groq_except_sleeping_always(c) ==
    IF c.attempt < MAX_RETRIES - 1
    THEN [c EXCEPT !.sleeps = Append(@, RETRY_DELAY * (2 ^ c.attempt)),
                   !.attempt = @ + 1]
    ELSE [c EXCEPT !.sleeps = Append(@, RETRY_DELAY * (2 ^ c.attempt)),
                   !.status = "raised"]
groq_except(c) ==
    IF c.attempt < MAX_RETRIES - 1
    THEN [c EXCEPT !.sleeps = Append(@, RETRY_DELAY * (2 ^ c.attempt)),
                   !.attempt = @ + 1]
    ELSE [c EXCEPT !.status = "raised"]

\* a safe_api_call that returns None on the first exception
safe_except_without_retry(s) == [s EXCEPT !.status = "gave_up"]
\* the except branch of safe_api_call: sleep RATE_LIMIT_DELAY * 2 ** attempt
\* and call again, or leave the loop after the last attempt and return None
safe_except(s) ==
    IF s.attempt < MAX_RETRIES - 1
    THEN [s EXCEPT !.sleeps = Append(@, RATE_LIMIT_DELAY * (2 ^ s.attempt)),
                   !.attempt = @ + 1]
    ELSE [s EXCEPT !.status = "gave_up"]

\* for entity in data[primary_column]: perform_ner, classify_query, and the
\* entry into safe_api_call(search_entity_info, entity)
NextEntity ==
    /\ pc = "loop"
    /\ idx <= Len(entities)
    /\ \E ents \in NlpEnts(entities[idx]) : ner_results' = perform_ner(ents)
    /\ query_type' = classify_query(query_template)
    /\ safe' = NewSafe("search_entity_info")
    /\ call' = NewCall("search_entity_info")
    /\ llm_requests' = 0
    /\ rate_sleeps' = <<>>
    /\ pc' = "search"
    /\ UNCHANGED <<entities, query_template, idx, web_result,
                   preprocessed_results, extracted_info, results, results_df>>

\* search.get_dict() raises
SearchRequestFails ==
    /\ pc = "search"
    /\ call.status = "running"
    /\ LET c == search_except([call EXCEPT !.requests = @ + 1, !.last = "failed"])
       IN IF c.status = "fell_through"
          THEN \* return [] after the loop
               /\ call' = [c EXCEPT !.status = "returned"]
               /\ safe' = [safe EXCEPT !.requests = @ + 1, !.status = "returned"]
               /\ web_result' = PyList(<<>>)
               /\ pc' = "branch"
          ELSE /\ call' = c
               /\ safe' = [safe EXCEPT !.requests = @ + 1]
               /\ UNCHANGED <<web_result, pc>>
    /\ UNCHANGED <<entities, query_template, idx, ner_results, query_type,
                   preprocessed_results, extracted_info, results, results_df,
                   llm_requests, rate_sleeps>>

\* search.get_dict() returns a response: search_entity_info returns its hits,
\* or [] when it has no organic results, and safe_api_call returns that
SearchRequestSucceeds ==
    /\ pc = "search"
    /\ call.status = "running"
    /\ \E response \in SearchResponses :
        /\ web_result' = search_return(response)
        /\ call' = [call EXCEPT !.requests = @ + 1, !.status = "returned",
                                !.last = IF search_return(response).items = <<>>
                                         THEN "no_organic" ELSE "organic"]
    /\ safe' = [safe EXCEPT !.requests = @ + 1, !.status = "returned"]
    /\ pc' = "branch"
    /\ UNCHANGED <<entities, query_template, idx, ner_results, query_type,
                   preprocessed_results, extracted_info, results, results_df,
                   llm_requests, rate_sleeps>>

\* safe_api_call catches the exception of the call it wrapped: it sleeps and
\* calls the function again, or returns None after its last attempt
SafeApiCallCatches ==
    /\ pc \in {"search", "extract"}
    /\ call.status = "raised"
    /\ LET s == safe_except(safe) IN
       IF s.status = "gave_up"
       THEN /\ safe' = s
            /\ call' = call
            /\ IF pc = "search"
               THEN /\ web_result' = PyNone
                    /\ pc' = "branch"
                    /\ UNCHANGED extracted_info
               ELSE /\ extracted_info' = PyNone
                    /\ pc' = "append"
                    /\ UNCHANGED web_result
       ELSE /\ safe' = s
            /\ call' = NewCall(call.fn)
            /\ UNCHANGED <<web_result, extracted_info, pc>>
    /\ UNCHANGED <<entities, query_template, idx, ner_results, query_type,
                   preprocessed_results, results, results_df, llm_requests,
                   rate_sleeps>>

\* if web_result: preprocess_search_results(web_result) and the entry into
\* safe_api_call(extract_information_with_groq, ...). An exception raised
\* by preprocess_search_results is caught nowhere: it ends the script run
PreprocessHits ==
    /\ pc = "branch"
    /\ has_results(web_result)
    /\ LET r == preprocess_search_results(web_result) IN
       IF r.raised
       THEN /\ pc' = "crashed"
            /\ UNCHANGED <<preprocessed_results, safe, call>>
       ELSE /\ preprocessed_results' = r.value
            /\ safe' = NewSafe("extract_information_with_groq")
            /\ call' = NewCall("extract_information_with_groq")
            /\ pc' = "extract"
    /\ UNCHANGED <<entities, query_template, idx, ner_results, query_type,
                   web_result, extracted_info, results, results_df,
                   llm_requests, rate_sleeps>>

\* else: results.append({... "No search results found" ...})
AppendNoResults ==
    /\ pc = "branch"
    /\ ~has_results(web_result)
    /\ results' = results_append(results,
                     no_results_row(entities[idx], ner_results, query_type))
    /\ pc' = "rate_limit"
    /\ UNCHANGED <<entities, query_template, idx, ner_results, query_type,
                   web_result, preprocessed_results, extracted_info,
                   results_df, call, safe, llm_requests, rate_sleeps>>

\* what a failed attempt of extract_information_with_groq leaves
ExtractAttemptFailed ==
    /\ call' = groq_except([call EXCEPT !.requests = @ + 1, !.last = "failed"])
    /\ safe' = [safe EXCEPT !.requests = @ + 1]
    /\ llm_requests' = llm_requests + 1
    /\ UNCHANGED <<extracted_info, pc>>

\* client.chat.completions.create(...) raises
ExtractRequestFails ==
    /\ pc = "extract"
    /\ call.status = "running"
    /\ ExtractAttemptFailed
    /\ UNCHANGED <<entities, query_template, idx, ner_results, query_type,
                   web_result, preprocessed_results, results, results_df,
                   rate_sleeps>>

\* client.chat.completions.create(...) returns a completion: the function
\* returns its content.strip(); content None has no strip(), which raises
\* inside the try and is handled as a failed attempt
ExtractRequestCompletes ==
    /\ pc = "extract"
    /\ call.status = "running"
    /\ \E content \in LLMContents :
        IF content.t = "str"
        THEN /\ extracted_info' = PyStr(Strip(content.s))
             /\ call' = [call EXCEPT !.requests = @ + 1, !.status = "returned",
                                     !.last = "completed"]
             /\ safe' = [safe EXCEPT !.requests = @ + 1, !.status = "returned"]
             /\ llm_requests' = llm_requests + 1
             /\ pc' = "append"
        ELSE ExtractAttemptFailed
    /\ UNCHANGED <<entities, query_template, idx, ner_results, query_type,
                   web_result, preprocessed_results, results, results_df,
                   rate_sleeps>>

\* results.append({... extracted_info or "Failed to extract" ...})
AppendRow ==
    /\ pc = "append"
    /\ results' = results_append(results,
                     extraction_row(entities[idx], extracted_info,
                                    preprocessed_results, ner_results,
                                    query_type))
    /\ pc' = "rate_limit"
    /\ UNCHANGED <<entities, query_template, idx, ner_results, query_type,
                   web_result, preprocessed_results, extracted_info,
                   results_df, call, safe, llm_requests, rate_sleeps>>

\* a loop body that ends without the sleep
rate_limit_sleep_skipped(slept) == slept
\* time.sleep(RATE_LIMIT_DELAY)
rate_limit_sleep(slept) == Append(slept, RATE_LIMIT_DELAY)

\* time.sleep(RATE_LIMIT_DELAY), then the next iteration
RateLimitSleep ==
    /\ pc = "rate_limit"
    /\ rate_sleeps' = rate_limit_sleep(rate_sleeps)
    /\ idx' = idx + 1
    /\ pc' = "loop"
    /\ UNCHANGED <<entities, query_template, ner_results, query_type,
                   web_result, preprocessed_results, extracted_info, results,
                   results_df, call, safe, llm_requests>>

\* after the loop: st.session_state.results_df = pd.DataFrame(results, ...)
FinishRun ==
    /\ pc = "loop"
    /\ idx > Len(entities)
    /\ results_df' = [set |-> TRUE, rows |-> results]
    /\ pc' = "done"
    /\ UNCHANGED <<entities, query_template, idx, ner_results, query_type,
                   web_result, preprocessed_results, extracted_info, results,
                   call, safe, llm_requests, rate_sleeps>>

----------------------------------------------------------------------------
\* safe_upload_to_google_sheet and upload_to_google_sheet (app.py)

url_sheet ==
    <<"h", "t", "t", "p", "s", ":", "/", "/", "d", "o", "c", "s", ".", "g",
      "o", "o", "g", "l", "e", ".", "c", "o", "m", "/", "s", "p", "r", "e",
      "a", "d", "s", "h", "e", "e", "t", "s", "/", "d", "/", "1", "a", "B",
      "_", "-", "9", "/", "e", "d", "i", "t">>
url_no_d ==
    <<"h", "t", "t", "p", "s", ":", "/", "/", "d", "o", "c", "s", ".", "g",
      "o", "o", "g", "l", "e", ".", "c", "o", "m", "/", "s", "p", "r", "e",
      "a", "d", "s", "h", "e", "e", "t", "s">>
url_no_id ==
    <<"h", "t", "t", "p", "s", ":", "/", "/", "d", "o", "c", "s", ".", "g",
      "o", "o", "g", "l", "e", ".", "c", "o", "m", "/", "d", "/">>
url_second_d ==
    <<"x", "/", "d", "/", "/", "d", "/", "Z", "z", "9", "#", "g", "i", "d",
      "=", "0">>
url_two_ids ==
    <<"x", "/", "d", "/", "a", "-", "1", "?", "y", "/", "d", "/", "b", "_",
      "2">>

\* [a-zA-Z0-9_-]
Digits == {"0", "1", "2", "3", "4", "5", "6", "7", "8", "9"}
SheetIdChars ==
    {UpperCase[i] : i \in 1..Len(UpperCase)} \cup
    {LowerCase[i] : i \in 1..Len(LowerCase)} \cup Digits \cup {"_", "-"}

\* re.search(r'/d/([a-zA-Z0-9_-]+)', url): the leftmost "/d/" that is
\* followed by a character of the class, and the longest run of the class
\* after it; ValueError when there is none
extract_sheet_id(url) ==
    LET starts == {i \in 1..Len(url) :
                      /\ i + 3 <= Len(url)
                      /\ SubSeq(url, i, i + 2) = <<"/", "d", "/">>
                      /\ url[i + 3] \in SheetIdChars}
    IN IF starts = {} THEN Raised
       ELSE LET i == CHOOSE a \in starts : \A b \in starts : a <= b
                ends == {j \in (i + 3)..Len(url) :
                            \A k \in (i + 3)..j : url[k] \in SheetIdChars}
                j == CHOOSE a \in ends : \A b \in ends : b <= a
            IN Returned(PyStr(SubSeq(url, i + 3, j)))

\* the columns of results_df
results_columns ==
    <<"Entity", "Extracted Information", "Search Title", "Search URL",
      "Search Snippet", "NER Results", "Query Type">>

\* dataframe.values.tolist(): each row as the list of its cells
values_tolist(rows) ==
    [i \in 1..Len(rows) |->
        <<rows[i].Entity, rows[i].ExtractedInformation, rows[i].SearchTitle,
          rows[i].SearchURL, rows[i].SearchSnippet, rows[i].NERResults,
          rows[i].QueryType>>]

\* values = [list(dataframe.columns)] + dataframe.values.tolist()
values_of(df) == <<results_columns>> \o values_tolist(df.rows)

\* st.session_state.results_df: None before a run, a DataFrame after it
NoDataFrame == [t |-> "None", rows |-> <<>>]
DataFrame(rows) == [t |-> "DataFrame", rows |-> rows]

\* dataframe is None or dataframe.empty
no_data(df) == df.t = "None" \/ df.rows = <<>>

\* st.error(text) and st.success(text)
st_error(text) == [kind |-> "error", text |-> text]
st_success(text) == [kind |-> "success", text |-> text]

\* a call of safe_upload_to_google_sheet that has just been entered with
\* the table df
NewUpload(df) ==
    [pc |-> "called", given |-> df, sheet_id |-> <<>>, raised |-> "",
     request |-> "none", messages |-> <<>>, returned |-> "none"]
NoUpload == [NewUpload(NoDataFrame) EXCEPT !.pc = "idle"]

\* `return False` after st.error(text)
rejected(u, text) ==
    [u EXCEPT !.pc = "returned", !.messages = Append(@, st_error(text)),
              !.returned = "False"]

\* the except branch of safe_upload_to_google_sheet, entered by an
\* exception raised at `step`
safe_upload_except(u, step) ==
    [u EXCEPT !.pc = "returned", !.raised = step,
              !.messages = @ \o <<st_error("Upload failed"),
                                  st_error("traceback")>>,
              !.returned = "False"]

\* what follows the return of upload_to_google_sheet
after_upload(u) ==
    [u EXCEPT !.pc = "returned",
              !.messages = Append(@, st_success("Successfully uploaded to Google Sheet!")),
              !.returned = "True"]

\* the except branch of upload_to_google_sheet, entered by an exception
\* raised at `step`
upload_except(u, step) ==
    [u EXCEPT !.raised = step,
              !.messages = Append(@, st_error("Error uploading to Google Sheets"))]

\* the states of token.json: no file, valid credentials, expired credentials
\* with a refresh token, credentials that are neither valid nor refreshable
TokenStates == {"absent", "valid", "refreshable", "invalid"}

UploadRows ==
    { no_results_row("Acme Corp", EmptyMap, "General"),
      Row("Jane Doe", s_A, s_A, s_url_a, s_B, EmptyMap, "General") }
DataFrames ==
    {NoDataFrame} \cup
    {DataFrame(rows) : rows \in UNION {[1..n -> UploadRows] : n \in 0..MaxEntities}}
SheetUrls == {<<>>, url_sheet, url_no_d, url_no_id, url_second_d, url_two_ids}

InitUpload ==
    /\ dataframe \in DataFrames
    /\ sheet_url \in SheetUrls
    /\ token_json \in TokenStates
    /\ sheet_values = <<>>
    /\ upload = NewUpload(dataframe)

\* the input validation and extract_sheet_id
ValidateInputs ==
    /\ upload.pc = "called"
    /\ upload' =
         IF no_data(dataframe)
         THEN rejected(upload, "No data available for upload. Please run extraction first.")
         ELSE IF sheet_url = <<>>
         THEN rejected(upload, "Please provide a valid Google Sheet URL.")
         ELSE IF extract_sheet_id(sheet_url).raised
         THEN safe_upload_except(upload, "extract_sheet_id")
         ELSE [upload EXCEPT !.pc = "credentials",
                             !.sheet_id = extract_sheet_id(sheet_url).value.s]
    /\ UNCHANGED <<dataframe, sheet_url, token_json, sheet_values>>

\* token.json holds valid credentials: nothing to refresh
CredentialsValid ==
    /\ upload.pc = "credentials"
    /\ token_json = "valid"
    /\ upload' = [upload EXCEPT !.pc = "request"]
    /\ UNCHANGED <<dataframe, sheet_url, token_json, sheet_values>>

\* credentials.refresh(Request()), or the authorization flow when the
\* credentials cannot be refreshed; then token.json is rewritten
CredentialsRenewed ==
    /\ upload.pc = "credentials"
    /\ token_json # "valid"
    /\ token_json' = "valid"
    /\ upload' = [upload EXCEPT !.pc = "request"]
    /\ UNCHANGED <<dataframe, sheet_url, sheet_values>>

\* the refresh or the authorization flow raises, outside the try of
\* upload_to_google_sheet
CredentialsFail ==
    /\ upload.pc = "credentials"
    /\ token_json # "valid"
    /\ upload' = safe_upload_except(upload, "credentials")
    /\ UNCHANGED <<dataframe, sheet_url, token_json, sheet_values>>

\* token.json cannot be read
TokenUnreadable ==
    /\ upload.pc = "credentials"
    /\ token_json # "absent"
    /\ upload' = safe_upload_except(upload, "credentials")
    /\ UNCHANGED <<dataframe, sheet_url, token_json, sheet_values>>

\* build("sheets", "v4", ...) raises inside the try
BuildFails ==
    /\ upload.pc = "request"
    /\ upload' = after_upload(upload_except(upload, "build"))
    /\ UNCHANGED <<dataframe, sheet_url, token_json, sheet_values>>

\* sheet.values().update(...).execute() completes
WriteRequestCompletes ==
    /\ upload.pc = "request"
    /\ sheet_values' = values_of(dataframe)
    /\ upload' =
         after_upload(
           [upload EXCEPT !.request = "completed",
                          !.messages = Append(@, st_success("Data uploaded successfully to Google Sheet"))])
    /\ UNCHANGED <<dataframe, sheet_url, token_json>>

\* sheet.values().update(...).execute() raises
WriteRequestFails ==
    /\ upload.pc = "request"
    /\ upload' = after_upload(upload_except([upload EXCEPT !.request = "failed"], "write"))
    /\ UNCHANGED <<dataframe, sheet_url, token_json, sheet_values>>

----------------------------------------------------------------------------
\* Specifications.

IdleClassify == query = <<>> /\ label = ""
IdlePreprocess ==
    /\ raw = PyNone
    /\ cleaned = Returned(PyNone)
    /\ ppDone = FALSE
    /\ recleaned = Returned(PyNone)
    /\ ppAgain = FALSE
IdleSearch ==
    /\ serp_response = [has_organic |-> FALSE, organic_results |-> <<>>]
    /\ serp_hits = PyNone
    /\ serp_prepared = Returned(PyNone)
    /\ serp_pc = "idle"
IdleNer == doc_ents = <<>> /\ ner_map = EmptyMap /\ nerDone = FALSE
IdleUpload ==
    /\ dataframe = NoDataFrame
    /\ sheet_url = <<>>
    /\ token_json = "absent"
    /\ sheet_values = <<>>
    /\ upload = NoUpload
IdlePipeline ==
    /\ entities = <<>>
    /\ query_template = <<>>
    /\ idx = 1
    /\ pc = "idle"
    /\ ner_results = EmptyMap
    /\ query_type = ""
    /\ web_result = PyNone
    /\ preprocessed_results = PyNone
    /\ extracted_info = PyNone
    /\ results = <<>>
    /\ results_df = [set |-> FALSE, rows |-> <<>>]
    /\ call = NoCall
    /\ safe = NoSafe
    /\ llm_requests = 0
    /\ rate_sleeps = <<>>

\* the pipeline run
Init ==
    InitPipeline /\ IdleClassify /\ IdlePreprocess /\ IdleSearch /\ IdleNer /\ IdleUpload

Next ==
    \/ NextEntity /\ UNCHANGED <<classifyVars, preprocessVars, searchVars, nerVars, uploadVars>>
    \/ SearchRequestFails /\ UNCHANGED <<classifyVars, preprocessVars, searchVars, nerVars, uploadVars>>
    \/ SearchRequestSucceeds /\ UNCHANGED <<classifyVars, preprocessVars, searchVars, nerVars, uploadVars>>
    \/ SafeApiCallCatches /\ UNCHANGED <<classifyVars, preprocessVars, searchVars, nerVars, uploadVars>>
    \/ PreprocessHits /\ UNCHANGED <<classifyVars, preprocessVars, searchVars, nerVars, uploadVars>>
    \/ AppendNoResults /\ UNCHANGED <<classifyVars, preprocessVars, searchVars, nerVars, uploadVars>>
    \/ ExtractRequestFails /\ UNCHANGED <<classifyVars, preprocessVars, searchVars, nerVars, uploadVars>>
    \/ ExtractRequestCompletes /\ UNCHANGED <<classifyVars, preprocessVars, searchVars, nerVars, uploadVars>>
    \/ AppendRow /\ UNCHANGED <<classifyVars, preprocessVars, searchVars, nerVars, uploadVars>>
    \/ RateLimitSleep /\ UNCHANGED <<classifyVars, preprocessVars, searchVars, nerVars, uploadVars>>
    \/ FinishRun /\ UNCHANGED <<classifyVars, preprocessVars, searchVars, nerVars, uploadVars>>

Spec == Init /\ [][Next]_vars

\* the pipeline run, the script going on as long as it has a next statement
SpecFair == Spec /\ WF_vars(Next)

\* classify_query on its own
InitC ==
    InitClassify /\ IdlePreprocess /\ IdleSearch /\ IdleNer /\ IdlePipeline /\ IdleUpload
NextC == Classify /\ UNCHANGED <<preprocessVars, searchVars, nerVars, pipelineVars, uploadVars>>
SpecClassify == InitC /\ [][NextC]_vars

\* preprocess_search_results on its own
InitP ==
    InitPreprocess /\ IdleClassify /\ IdleSearch /\ IdleNer /\ IdlePipeline /\ IdleUpload
NextP ==
    \/ Preprocess /\ UNCHANGED <<classifyVars, searchVars, nerVars, pipelineVars, uploadVars>>
    \/ PreprocessAgain /\ UNCHANGED <<classifyVars, searchVars, nerVars, pipelineVars, uploadVars>>
SpecPreprocess == InitP /\ [][NextP]_vars

\* search_entity_info on one response, and the preprocessing of its hits
InitS ==
    InitSearch /\ IdleClassify /\ IdlePreprocess /\ IdleNer /\ IdlePipeline /\ IdleUpload
NextS ==
    \/ SearchReturns /\ UNCHANGED <<classifyVars, preprocessVars, nerVars, pipelineVars, uploadVars>>
    \/ PreprocessReturned /\ UNCHANGED <<classifyVars, preprocessVars, nerVars, pipelineVars, uploadVars>>
SpecSearch == InitS /\ [][NextS]_vars

\* perform_ner on its own
InitN ==
    InitNer /\ IdleClassify /\ IdlePreprocess /\ IdleSearch /\ IdlePipeline /\ IdleUpload
NextN == PerformNer /\ UNCHANGED <<classifyVars, preprocessVars, searchVars, pipelineVars, uploadVars>>
SpecNer == InitN /\ [][NextN]_vars

\* safe_upload_to_google_sheet on its own
InitU ==
    InitUpload /\ IdleClassify /\ IdlePreprocess /\ IdleSearch /\ IdleNer /\ IdlePipeline
NextU ==
    \/ ValidateInputs /\ UNCHANGED <<classifyVars, preprocessVars, searchVars, nerVars, pipelineVars>>
    \/ CredentialsValid /\ UNCHANGED <<classifyVars, preprocessVars, searchVars, nerVars, pipelineVars>>
    \/ CredentialsRenewed /\ UNCHANGED <<classifyVars, preprocessVars, searchVars, nerVars, pipelineVars>>
    \/ CredentialsFail /\ UNCHANGED <<classifyVars, preprocessVars, searchVars, nerVars, pipelineVars>>
    \/ TokenUnreadable /\ UNCHANGED <<classifyVars, preprocessVars, searchVars, nerVars, pipelineVars>>
    \/ BuildFails /\ UNCHANGED <<classifyVars, preprocessVars, searchVars, nerVars, pipelineVars>>
    \/ WriteRequestCompletes /\ UNCHANGED <<classifyVars, preprocessVars, searchVars, nerVars, pipelineVars>>
    \/ WriteRequestFails /\ UNCHANGED <<classifyVars, preprocessVars, searchVars, nerVars, pipelineVars>>
SpecUpload == InitU /\ [][NextU]_vars

----------------------------------------------------------------------------
\* Properties of the pipeline run (Spec).

LastRow == results[Len(results)]

\* C1: a call of search_entity_info or of extract_information_with_groq whose
\* provider request fails on every attempt issues exactly MAX_RETRIES = 3
\* requests, sleeps 2 s after the first failure and 4 s after the second,
\* does not sleep after the third, and then raises. While every request so
\* far has failed, the call has made as many requests as it has slept, with
\* the delays 2, 4 in that order; after the third failure it has raised.
C1_RetryCapAndBackoff ==
    /\ call.requests <= MAX_RETRIES
    /\ (call.status = "running" /\ call.last = "failed") =>
          /\ call.requests < MAX_RETRIES
          /\ call.sleeps = SubSeq(<<2, 4>>, 1, call.requests)
    /\ (call.requests = MAX_RETRIES /\ call.last = "failed") =>
          call.status = "raised"
    /\ call.status = "raised" =>
          /\ call.requests = MAX_RETRIES
          /\ call.last = "failed"
          /\ call.sleeps = <<2, 4>>

\* a call of extract_information_with_groq (made after a search that
\* returned hits) has raised after its third failed request
C1_Witness ==
    /\ call.fn = "extract_information_with_groq"
    /\ call.status = "raised"
    /\ call.requests = 3
    /\ call.sleeps = <<2, 4>>

\* C2: search_entity_info returns [] only for a request that succeeded
\* without organic results, at once (no sleep follows that request, no
\* error), and raises only after three failed requests; it never returns
\* after a request that failed.
C2_EmptyResultsAreNotFailures ==
    call.fn = "search_entity_info" =>
        /\ call.status = "returned" =>
              /\ call.last \in {"no_organic", "organic"}
              /\ Len(call.sleeps) = call.requests - 1
              /\ call.last = "no_organic" <=> web_result = PyList(<<>>)
        /\ call.status = "raised" =>
              /\ call.requests = MAX_RETRIES
              /\ call.last = "failed"
        /\ call.last \in {"no_organic", "organic"} => call.status = "returned"

\* an empty list returned by the second request, after one failure
C2_Witness ==
    /\ call.fn = "search_entity_info"
    /\ call.status = "returned"
    /\ call.last = "no_organic"
    /\ call.requests = 2
    /\ web_result = PyList(<<>>)
    /\ pc = "branch"

\* C3: no entity's outcome halts the run: the loop never ends on an
\* exception, and when it has ended the table has a row for every entity.
C3_NoEntityHaltsTheRun ==
    /\ pc # "crashed"
    /\ pc = "done" => Len(results_df.rows) = Len(entities)

\* C4: when the search of an entity has failed on every attempt
\* (safe_api_call gave up and returned None), the else branch is taken, no
\* LLM request is made for the entity, and the row appended for it is "No
\* search results found" with empty search fields, the entity's NER results
\* and the query type of the template.
C4_FailedSearchRow ==
    (safe.fn = "search_entity_info" /\ safe.status = "gave_up") =>
        /\ pc \in {"branch", "rate_limit", "loop", "done"}
        /\ ~has_results(web_result)
        /\ llm_requests = 0
        /\ pc \in {"rate_limit", "loop", "done"} =>
              /\ Len(results) >= 1
              /\ LastRow.Entity = entities[Len(results)]
              /\ LastRow.ExtractedInformation = s_no_search_results
              /\ LastRow.SearchTitle = <<>>
              /\ LastRow.SearchURL = <<>>
              /\ LastRow.SearchSnippet = <<>>
              /\ LastRow.NERResults = ner_results
              /\ LastRow.QueryType = classify_query(query_template)

\* the row of an entity whose search failed nine times, with NER results
C4_Witness ==
    /\ safe.fn = "search_entity_info"
    /\ safe.status = "gave_up"
    /\ safe.requests = 9
    /\ pc = "rate_limit"
    /\ LastRow.ExtractedInformation = s_no_search_results
    /\ DOMAIN LastRow.NERResults = {"ORG", "PERSON"}
    /\ LastRow.QueryType = "Net Worth"

\* C5: when the search returned a list of length 0 no LLM request is made
\* for the entity and its row is the row of a failed search; an LLM request
\* is made only for an entity whose search returned a non-empty list.
C5_EmptyHitListRow ==
    /\ (safe.fn = "search_entity_info" /\ safe.status = "returned"
        /\ web_result = PyList(<<>>)) =>
          /\ pc \in {"branch", "rate_limit", "loop", "done"}
          /\ llm_requests = 0
          /\ pc \in {"rate_limit", "loop", "done"} =>
                /\ Len(results) >= 1
                /\ LastRow = Row(entities[Len(results)], s_no_search_results,
                                 <<>>, <<>>, <<>>, ner_results, query_type)
    /\ (llm_requests > 0 \/ pc = "extract") =>
          /\ web_result.t = "list"
          /\ Len(web_result.items) > 0

\* the row of an entity whose search returned an empty list
C5_Witness ==
    /\ safe.fn = "search_entity_info"
    /\ safe.status = "returned"
    /\ web_result = PyList(<<>>)
    /\ pc = "rate_limit"
    /\ llm_requests = 0
    /\ LastRow.ExtractedInformation = s_no_search_results

\* the rows of the table are the rows of the first entities, in input order
OrderedPrefix ==
    /\ Len(results) <= Len(entities)
    /\ \A i \in 1..Len(results) : results[i].Entity = entities[i]
    /\ Len(results) = IF pc = "rate_limit" THEN idx ELSE idx - 1
    /\ pc = "done" =>
          /\ results_df.set
          /\ results_df.rows = results
          /\ Len(results_df.rows) = Len(entities)

\* a step appends at most one row and leaves the rows before it as they were
AppendOnly ==
    /\ Len(results') \in {Len(results), Len(results) + 1}
    /\ \A i \in 1..Len(results) : results'[i] = results[i]

OneSleepPerEntity ==
    /\ pc \in {"search", "branch", "extract", "append", "rate_limit", "crashed"} =>
          rate_sleeps = <<>>
    /\ (pc \in {"loop", "done"} /\ idx > 1) =>
          /\ rate_sleeps = <<2>>
          /\ Len(results) = idx - 1

\* the loop moves to the next entity only by the sleep that follows the
\* appended row, and enters an iteration only at the start or after a sleep
SleepBeforeNextEntity ==
    /\ (idx' # idx \/ (pc = "rate_limit" /\ pc' # pc)) =>
          /\ pc = "rate_limit"
          /\ Len(results) = idx
          /\ rate_sleeps' = <<2>>
          /\ idx' = idx + 1
          /\ pc' = "loop"
    /\ (pc = "loop" /\ pc' = "search") => (idx = 1 \/ rate_sleeps = <<2>>)

RECURSIVE CommaSeparated(_)
CommaSeparated(ss) ==
    IF ss = <<>> THEN <<>>
    ELSE IF Len(ss) = 1 THEN ss[1]
    ELSE CommaSeparated(SubSeq(ss, 1, Len(ss) - 1)) \o <<",", " ">> \o ss[Len(ss)]

\* the values of a key of the preprocessed hits, in hit order
HitValues(key) ==
    [i \in 1..Len(preprocessed_results.items) |->
        preprocessed_results.items[i].d[key].s]

\* C15: for an entity whose search returned a non-empty hit list, the row's
\* Search Title, Search URL and Search Snippet are the ", "-joined titles,
\* urls and snippets of the preprocessed hits in hit order (two hits titled
\* A and B give "A, B"), and its Query Type is classify_query of the
\* template ("Net Worth" for "Extract the net worth of {entity}").
C15_RowJoinsHitFields ==
    (pc = "rate_limit" /\ has_results(web_result)) =>
        /\ LastRow.Entity = entities[idx]
        /\ LastRow.SearchTitle = CommaSeparated(HitValues("title"))
        /\ LastRow.SearchURL = CommaSeparated(HitValues("url"))
        /\ LastRow.SearchSnippet = CommaSeparated(HitValues("snippet"))
        /\ Len(preprocessed_results.items) = Len(web_result.items)
        /\ (Len(web_result.items) = 2
            /\ web_result.items[1].d.title = Str(s_A_padded)
            /\ web_result.items[2].d.title = Str(s_B)) =>
              LastRow.SearchTitle = <<"A", ",", " ", "B">>
        /\ LastRow.QueryType = classify_query(query_template)
        /\ query_template = template_net_worth => LastRow.QueryType = "Net Worth"

\* the row of the scenario: two hits titled A and B, the net worth template
C15_Witness ==
    /\ pc = "rate_limit"
    /\ has_results(web_result)
    /\ query_template = template_net_worth
    /\ LastRow.Entity = "Acme Corp"
    /\ LastRow.SearchTitle = <<"A", ",", " ", "B">>
    /\ LastRow.SearchURL = <<"u", "/", "a", ",", " ", "u", "/", "b">>
    /\ LastRow.SearchSnippet = <<"F", "o", "o", ",", " ", "N", "/", "A">>
    /\ LastRow.QueryType = "Net Worth"

\* C17: the provider requests made under one safe_api_call (one entity's
\* search, or one entity's extraction) never exceed MAX_RETRIES * MAX_RETRIES
\* = 9: each of the 3 outer attempts makes at most 3 inner requests, the
\* outer sleeps are 2 s then 4 s, none after the last attempt; when all
\* requests fail exactly 9 are made and safe_api_call returns None.
C17_NestedRetriesAtMostNine ==
    /\ safe.requests <= MAX_RETRIES * MAX_RETRIES
    /\ safe.requests <= 9
    /\ safe.status \in {"running", "gave_up"} =>
          /\ safe.requests = MAX_RETRIES * safe.attempt + call.requests
          /\ safe.sleeps = SubSeq(<<2, 4>>, 1, safe.attempt)
    /\ safe.status = "gave_up" =>
          /\ safe.requests = 9
          /\ safe.attempt = 2
          /\ safe.sleeps = <<2, 4>>
          /\ call.sleeps = <<2, 4>>
          /\ pc # "crashed"
          /\ safe.fn = "search_entity_info" => web_result = PyNone
          /\ safe.fn = "extract_information_with_groq" =>
                (extracted_info = PyNone /\ llm_requests = 9)
    /\ (safe.requests = 9 /\ call.last = "failed") =>
          (safe.status = "gave_up" \/ call.status = "raised")

\* the extraction of an entity has made nine failed requests and
\* safe_api_call has returned None
C17_Witness ==
    /\ safe.fn = "extract_information_with_groq"
    /\ safe.status = "gave_up"
    /\ safe.requests = 9
    /\ safe.sleeps = <<2, 4>>
    /\ extracted_info = PyNone
    /\ pc = "append"

\* C19: every run terminates: the loop eventually processes the last
\* entity and reaches the state in which the accumulated table is handed to
\* the presentation layer.
C19_EveryRunHandsOverTheTable ==
    <>(pc = "done" /\ results_df.set /\ Len(results_df.rows) = Len(entities))

\* C20: for an entity whose search returned hits, Extracted Information is
\* "Failed to extract" if and only if the extraction failed on every
\* attempt; when an attempt succeeded it is the trimmed content the model
\* returned, the empty string included.
C20_FailedToExtractOnlyOnFailure ==
    (pc = "rate_limit" /\ has_results(web_result)) =>
        /\ LastRow.ExtractedInformation = s_failed_to_extract <=>
              safe.status = "gave_up"
        /\ safe.status = "returned" =>
              LastRow.ExtractedInformation = extracted_info.s

----------------------------------------------------------------------------
\* Properties of classify_query (SpecClassify).

\* s with its letters in lower case
FoldCase(s) == [i \in 1..Len(s) |-> LowerChar(s[i])]

\* k occurs in s, letter case ignored (k is in lower case)
ContainsCI(s, k) == Contains(FoldCase(s), k)

\* the rules, in the fixed order, each with its keywords
RuleTable ==
    << [label |-> "Net Worth", keywords |-> {kw_net_worth}],
       [label |-> "Age", keywords |-> {kw_age, kw_born}],
       [label |-> "Biography", keywords |-> {kw_career, kw_biography}],
       [label |-> "Family Information", keywords |-> {kw_parents, kw_family}],
       [label |-> "Career", keywords |-> {kw_job, kw_career}],
       [label |-> "Education", keywords |-> {kw_education, kw_school}],
       [label |-> "Personal Life", keywords |-> {kw_married, kw_spouse}],
       [label |-> "Awards & Achievements", keywords |-> {kw_award, kw_achievement}],
       [label |-> "Company Info", keywords |-> {kw_history, kw_background}],
       [label |-> "Product Info", keywords |-> {kw_product, kw_service}],
       [label |-> "News", keywords |-> {kw_news, kw_latest}],
       [label |-> "Social Media",
        keywords |-> {kw_social_media, kw_twitter, kw_instagram}],
       [label |-> "Philanthropy", keywords |-> {kw_charity, kw_philanthropy}],
       [label |-> "Real Estate", keywords |-> {kw_property, kw_real_estate}],
       [label |-> "Health", keywords |-> {kw_health, kw_condition}],
       [label |-> "Events", keywords |-> {kw_event, kw_conference}],
       [label |-> "Fruit", keywords |-> {kw_fruit, kw_vegetable}] >>

\* the rules of which a keyword occurs in q, letter case ignored
MatchingRules(q) ==
    LET folded == FoldCase(q) IN
    { i \in 1..Len(RuleTable) :
        \E k \in RuleTable[i].keywords : Contains(folded, k) }

\* the label of the first of the rules m, "Miscellaneous" when there is none
FirstOf(m) ==
    IF m = {} THEN "Miscellaneous"
    ELSE RuleTable[CHOOSE i \in m : \A j \in m : i <= j].label

\* C7: a query that contains "career" and none of "net worth", "age",
\* "born" is classified "Biography", never "Career"; "Career" is returned
\* only for queries that contain "job".
C7_CareerIsBiography ==
    label # "" =>
        LET folded == FoldCase(query) IN
        /\ (/\ Contains(folded, kw_career)
            /\ ~Contains(folded, kw_net_worth)
            /\ ~Contains(folded, kw_age)
            /\ ~Contains(folded, kw_born)) => label = "Biography"
        /\ label = "Career" => Contains(folded, kw_job)

\* a query with "career" and "job", in upper case, classified "Biography"
C7_Witness ==
    /\ label = "Biography"
    /\ Contains(query, <<"C", "A", "R", "E", "E", "R">>)
    /\ ContainsCI(query, kw_job)
    /\ ~ContainsCI(query, kw_biography)

\* C8: classify_query returns, for every query, the label of the first rule
\* of the fixed order of which a keyword occurs in the query, letter case
\* ignored, and "Miscellaneous" exactly when no keyword of any rule occurs.
C8_FirstMatchingRuleWins ==
    label # "" =>
        LET matching == MatchingRules(query) IN
        /\ label = FirstOf(matching)
        /\ label = "Miscellaneous" <=> matching = {}

\* a query matching the Age rule (in mixed case) and a later rule
C8_Witness ==
    /\ label = "Age"
    /\ Contains(query, <<"A", "g", "e">>)
    /\ Cardinality(MatchingRules(query)) >= 2
    /\ ~ContainsCI(query, kw_net_worth)

----------------------------------------------------------------------------
\* Properties of preprocess_search_results (SpecPreprocess).

\* the string the claim gives a key of a raw hit: its value trimmed, or the
\* empty string when the key is missing or its value is None
ExpectedField(result, key) ==
    IF result.d[key].t \in {"missing", "None"} THEN Str(<<>>)
    ELSE Str(Strip(result.d[key].s))

ExpectedHit(result) ==
    PyDict([title |-> ExpectedField(result, "title"),
            url |-> ExpectedField(result, "url"),
            snippet |-> ExpectedField(result, "snippet")])

IsDict(v) == v.t = "dict"

\* C9: for every record-shaped raw hit preprocess_search_results produces,
\* without raising, a hit whose title, url and snippet are the trimmed
\* string of that key, or "" when the key is missing or its value is None.
C9_NoneAndMissingBecomeEmpty ==
    (ppDone /\ raw.t = "list" /\ raw.items # <<>>) =>
        /\ ~cleaned.raised
        /\ LET dicts == SelectSeq(raw.items, IsDict) IN
           cleaned.value.items = [i \in 1..Len(dicts) |-> ExpectedHit(dicts[i])]

\* C10: for every input that is not a non-empty list (None, a scalar, a
\* single record, an empty list) preprocess_search_results returns an empty
\* list and raises nothing.
C10_NotANonEmptyListGivesEmpty ==
    (ppDone /\ (raw.t # "list" \/ raw.items = <<>>)) =>
        cleaned = Returned(PyList(<<>>))

\* a non-zero int handed to preprocess_search_results came back as []
C10_Witness ==
    /\ ppDone
    /\ raw = PyInt(7)
    /\ cleaned = Returned(PyList(<<>>))

\* C11: preprocess_search_results is idempotent on its own output: called
\* on the list it returned, it returns that list again.
C11_PreprocessIsIdempotent ==
    ppAgain => recleaned = cleaned

\* the second call on a list of two hits that the first call had to trim
C11_Witness ==
    /\ ppAgain
    /\ Len(cleaned.value.items) = 2
    /\ raw.items[1].d.title = Str(s_Foo_padded)
    /\ raw.items[1].d.snippet = Missing
    /\ cleaned.value.items[1].d.title = Str(s_Foo)
    /\ recleaned.value.items # raw.items

----------------------------------------------------------------------------
\* Properties of search_entity_info followed by preprocessing (SpecSearch).

\* the key of a hit that holds the value of a key of an organic result
HitKey(k) == IF k = "link" THEN "url" ELSE k

\* every key that organic result i lacks has the value v in preprocessed hit i
AbsentFieldsBecome(v) ==
    (serp_pc = "preprocessed" /\ ~serp_prepared.raised) =>
        \A i \in 1..Len(serp_response.organic_results) :
            \A k \in {"title", "link", "snippet"} :
                serp_response.organic_results[i][k].t = "missing" =>
                    serp_prepared.value.items[i].d[HitKey(k)] = Str(v)

\* C12, as claimed: a field that is absent in the provider's organic result
\* is the empty string in the hit that search_entity_info followed by
\* preprocess_search_results produces.
C12_AbsentFieldsBecomeEmpty == AbsentFieldsBecome(<<>>)

\* C12, amended: such a field is the string "N/A" in that hit.
C12_AbsentFieldsBecomeNA == AbsentFieldsBecome(s_NA)

\* a preprocessed hit of an organic result that has a title only
C12_Witness ==
    /\ serp_pc = "preprocessed"
    /\ ~serp_prepared.raised
    /\ Len(serp_response.organic_results) = 2
    /\ serp_response.organic_results[2] = Organic(Str(s_A_padded), Missing, Missing)
    /\ serp_prepared.value.items[2].d =
          [title |-> Str(s_A), url |-> Str(s_NA), snippet |-> Str(s_NA)]

\* C13: the list search_entity_info returns has at most 10 hits, whatever
\* the number of organic results of the provider's response.
C13_AtMostTenHits ==
    serp_pc \in {"returned", "preprocessed"} =>
        Len(serp_hits.items) <= RESULTS_REQUESTED

----------------------------------------------------------------------------
\* Properties of perform_ner (SpecNer).

\* the position of the last span tagged l
LastSpan(l) ==
    CHOOSE i \in 1..Len(doc_ents) :
        /\ doc_ents[i].label_ = l
        /\ \A j \in (i + 1)..Len(doc_ents) : doc_ents[j].label_ # l

\* C16: the keys of the map perform_ner returns are exactly the tags that
\* occur among the spans, each tag maps to the text of its last span, and
\* the map is empty when no span is detected.
C16_LastSpanPerTagWins ==
    nerDone =>
        /\ DOMAIN ner_map = { doc_ents[i].label_ : i \in 1..Len(doc_ents) }
        /\ \A l \in DOMAIN ner_map : ner_map[l] = doc_ents[LastSpan(l)].text
        /\ doc_ents = <<>> => ner_map = EmptyMap

\* two spans of one tag with different texts, a span of another tag between
C16_Witness ==
    /\ nerDone
    /\ Len(doc_ents) = 3
    /\ doc_ents[1] = [label_ |-> "ORG", text |-> "Acme"]
    /\ doc_ents[2].label_ = "PERSON"
    /\ doc_ents[3] = [label_ |-> "ORG", text |-> "Jane"]
    /\ ner_map["ORG"] = "Jane"

----------------------------------------------------------------------------
\* More properties of preprocess_search_results (SpecPreprocess).

\* C18: for every non-empty input list the output holds exactly one hit per
\* record-shaped entry, in the order of the input, entries that are no
\* record dropped and duplicates kept: its length is the number of
\* record-shaped entries, and hit i carries the strings of record i.
C18_OneHitPerRecordInOrder ==
    (ppDone /\ raw.t = "list" /\ raw.items # <<>>) =>
        LET dicts == SelectSeq(raw.items, IsDict) IN
        /\ ~cleaned.raised
        /\ Len(cleaned.value.items) = Len(dicts)
        /\ \A i \in 1..Len(dicts) : \A key \in {"title", "url", "snippet"} :
              dicts[i].d[key].t = "str" =>
                  cleaned.value.items[i].d[key] = Str(Strip(dicts[i].d[key].s))

\* the outer success message of safe_upload_to_google_sheet
ShowsSuccess(u) ==
    \E i \in 1..Len(u.messages) :
        u.messages[i] = st_success("Successfully uploaded to Google Sheet!")

\* C21: an upload failure is reported as a failure and leaves the results
\* untouched: when safe_upload_to_google_sheet has returned, it returned True
\* and showed its success message only if the spreadsheet write request
\* completed without error, it returned False if the write, the credential
\* step or the URL parsing failed, and the result table is the one it was
\* handed.
C21_UploadFailureIsReported ==
    upload.pc = "returned" =>
        /\ upload.returned = "True" => upload.request = "completed"
        /\ ShowsSuccess(upload) => upload.request = "completed"
        /\ (\/ upload.request = "failed"
            \/ upload.raised \in {"credentials", "extract_sheet_id"})
              => upload.returned = "False"
        /\ dataframe = upload.given

====
